---- MODULE Spec2Model ----
(***************************************************************************)
(* Machine-event publishing of `podman machine`                            *)
(* (src/pkg/domain/entities/manifest.go, package machine, lines 33-220).   *)
(*                                                                         *)
(* State: the three package-level variables sockPaths, openEventSock and   *)
(* sockets (lines 61-63), the process environment that resolveEventSock    *)
(* reads, the subscriber side of every connection, and a record of what    *)
(* the last handler did and returned.                                      *)
(*                                                                         *)
(* Handlers (one action each, the whole body in one step):                 *)
(*   initMachineEvents   PersistentPreRunE,  the pre-hook   (114-137)      *)
(*   newMachineEvent     publish                            (179-212)      *)
(*   closeMachineEvents  PersistentPostRunE, the post-hook  (214-220)      *)
(*                                                                         *)
(* A path is a natural number: the i-th entry visited by the directory     *)
(* walk has path i, the value of PODMAN_MACHINE_EVENTS_SOCK is EnvSock.    *)
(* A file name is a sequence of tokens; its text is their concatenation.   *)
(***************************************************************************)
EXTENDS Integers, Sequences, FiniteSets, TLC

\* ------------------------------------------------------------------ bounds
\* entries the directory walk visits
MaxEntries == 2
\* calls of newMachineEvent and of closeMachineEvents in one process
MaxPublish == 2
MaxPost == 2

\* the command layer runs PersistentPreRunE once, before the command body
\* (line 70); SpecRerun is the process that invokes it once more
MaxPre == 1

\* ------------------------------------------------------------- environment
NoErr == "nil"
ErrNotExist == "ErrNotExist"
ErrPermission == "ErrPermission"

\* value of PODMAN_MACHINE_EVENTS_SOCK when it is set
EnvSock == MaxEntries + 1

\* tokens a file name is made of
TokPrefix == "machine_events"
TokSuffix == ".sock"
TokOther == "x"
TokNewline == "\n"

\* one call of the WalkDir callback: the entry's name, whether it is a
\* directory, whether its type is os.ModeSocket, and the error WalkDir
\* hands to the callback for it
Entry(name, isDir, isSocket, err) ==
    [name |-> name, isDir |-> isDir, isSocket |-> isSocket, err |-> err]

SockPlain == Entry(<<TokPrefix, TokSuffix>>, FALSE, TRUE, NoErr)
DirPlain == Entry(<<TokOther>>, TRUE, FALSE, NoErr)
GoneEntry == Entry(<<TokOther>>, FALSE, FALSE, ErrNotExist)
DeniedEntry == Entry(<<TokOther>>, FALSE, FALSE, ErrPermission)

\* the entries the walks of Spec are drawn from
EntryPool == {SockPlain, DirPlain, GoneEntry, DeniedEntry}

RECURSIVE SeqsUpTo(_, _)
SeqsUpTo(S, n) ==
    IF n = 0 THEN {<<>>}
    ELSE LET shorter == SeqsUpTo(S, n - 1)
         IN  shorter \cup {Append(s, x) : s \in {t \in shorter : Len(t) = n - 1}, x \in S}

Walks == SeqsUpTo(EntryPool, MaxEntries)

Envs == [override : {FALSE, TRUE}, xdgOk : {FALSE, TRUE}, walk : Walks]

Range(s) == {s[i] : i \in 1..Len(s)}

\* the entries the walks of SpecResolve are drawn from: sockets of every
\* name of NamePool, a regular file and a directory with a matching name,
\* and the two failing entries
NamePool ==
    { <<TokPrefix, TokSuffix>>,
      <<TokPrefix, TokOther, TokSuffix>>,
      <<TokOther, TokPrefix, TokSuffix>>,
      <<TokPrefix, TokSuffix, TokOther>>,
      <<TokPrefix, TokNewline, TokSuffix>>,
      <<TokSuffix, TokPrefix>> }

FilePlain == Entry(<<TokPrefix, TokSuffix>>, FALSE, FALSE, NoErr)
DirNamed == Entry(<<TokPrefix, TokSuffix>>, TRUE, FALSE, NoErr)

EntryPoolResolve ==
    {Entry(n, FALSE, TRUE, NoErr) : n \in NamePool}
        \cup {FilePlain, DirNamed, GoneEntry, DeniedEntry}

EnvsResolve ==
    [override : {FALSE, TRUE}, xdgOk : {FALSE, TRUE},
     walk : SeqsUpTo(EntryPoolResolve, MaxEntries)]

\* -------------------------------------------------------- resolveEventSock
\* regexp.MustCompile(`machine_events.*\.sock`).MatchString(name): the
\* pattern is not anchored, and `.` does not match a newline
reMatchString(name) ==
    \E i \in 1..Len(name) : \E j \in 1..Len(name) :
        /\ i < j
        /\ name[i] = TokPrefix
        /\ name[j] = TokSuffix
        /\ \A k \in (i + 1)..(j - 1) : name[k] # TokNewline

\* the callback fn: "keep", "skip" or the error it returns
fn(info) ==
    IF info.err # NoErr THEN info.err
    ELSE IF info.isDir THEN "skip"
    ELSE IF ~info.isSocket THEN "skip"
    ELSE IF ~reMatchString(info.name) THEN "skip"
    ELSE "keep"

\* filepath.WalkDir: calls fn on the entries in walk order and stops at the
\* first error fn returns
RECURSIVE WalkDir(_, _, _)
WalkDir(walk, i, found) ==
    IF i > Len(walk) THEN [paths |-> found, err |-> NoErr]
    ELSE LET r == fn(walk[i])
         IN  IF r = "keep" THEN WalkDir(walk, i + 1, Append(found, i))
             ELSE IF r = "skip" THEN WalkDir(walk, i + 1, found)
             ELSE [paths |-> found, err |-> r]

\* the runtime dir looked up before the override
resolveEventSockXdgFirst(e) ==
    IF ~e.xdgOk THEN [paths |-> <<>>, err |-> NoErr]
    ELSE IF e.override THEN [paths |-> <<EnvSock>>, err |-> NoErr]
    ELSE LET w == WalkDir(e.walk, 1, <<>>)
         IN  IF w.err # NoErr
             THEN IF w.err = ErrNotExist
                  THEN [paths |-> <<>>, err |-> NoErr]
                  ELSE [paths |-> <<>>, err |-> w.err]
             ELSE [paths |-> w.paths, err |-> NoErr]

\* every walk error returned, os.ErrNotExist too
resolveEventSockNotExistFails(e) ==
    IF e.override THEN [paths |-> <<EnvSock>>, err |-> NoErr]
    ELSE IF ~e.xdgOk THEN [paths |-> <<>>, err |-> NoErr]
    ELSE LET w == WalkDir(e.walk, 1, <<>>)
         IN  IF w.err # NoErr
             THEN [paths |-> <<>>, err |-> w.err]
             ELSE [paths |-> w.paths, err |-> NoErr]

resolveEventSock(e) ==
    IF e.override THEN [paths |-> <<EnvSock>>, err |-> NoErr]
    ELSE IF ~e.xdgOk THEN [paths |-> <<>>, err |-> NoErr]
    ELSE LET w == WalkDir(e.walk, 1, <<>>)
         IN  IF w.err # NoErr
             THEN IF w.err = ErrNotExist
                  THEN [paths |-> <<>>, err |-> NoErr]
                  ELSE [paths |-> <<>>, err |-> w.err]
             ELSE [paths |-> w.paths, err |-> NoErr]

\* -------------------------------------------------------------------- state
VARIABLES
    env,            \* what resolveEventSock reads: the override, the runtime dir, the walk
    sockPaths,      \* package variable sockPaths (line 61)
    openEventSock,  \* package variable openEventSock (line 62): TRUE once Do has run
    sockets,        \* package variable sockets (line 63): sequence of connections
    dials,          \* every DialContext call so far, in order
    closes,         \* closes[id]: number of Close calls made on connection id
    received,       \* received[id]: payloads written successfully to connection id
    now,            \* time.Now()
    preCalls,       \* calls of initMachineEvents so far
    pubCalls,       \* calls of newMachineEvent so far
    postCalls,      \* calls of closeMachineEvents so far
    ret,            \* the last handler call: what it did and returned
    pc,             \* pc[t]: where caller t of newMachineEvent is in its call
    onceM,          \* holder of the mutex of openEventSock, NoThread when free
    bodyRuns        \* number of times the function handed to Do was started

vars == <<env, sockPaths, openEventSock, sockets, dials, closes, received, now,
          preCalls, pubCalls, postCalls, ret, pc, onceM, bodyRuns>>

\* concurrent callers of newMachineEvent
MaxThreads == 2
Threads == 1..MaxThreads
NoThread == 0

NoEvent == [Name |-> "", Status |-> "", Time |-> 0, Type |-> ""]

NoCall ==
    [op |-> "none", err |-> NoErr, resolved |-> <<>>, dialed |-> <<>>,
     status |-> "", event |-> NoEvent,
     marshalled |-> FALSE, payload |-> <<>>, writes |-> <<>>, closed |-> <<>>]

Init ==
    /\ env \in Envs
    /\ sockPaths = <<>>
    /\ openEventSock = FALSE
    /\ sockets = <<>>
    /\ dials = <<>>
    /\ closes = <<>>
    /\ received = <<>>
    /\ now = 0
    /\ preCalls = 0
    /\ pubCalls = 0
    /\ postCalls = 0
    /\ ret = NoCall
    /\ pc = [t \in Threads |-> "idle"]
    /\ onceM = NoThread
    /\ bodyRuns = 0

\* ------------------------------------------------------------ the dial loop
\* for _, path := range paths { conn, err := DialContext(path); if err != nil
\* { continue }; sockets = append(sockets, conn) }
\* okSet: the paths whose dial succeeds.  A new connection gets the next id.
RECURSIVE DialAllStop(_, _, _, _, _, _)
DialAllStop(paths, i, okSet, by, socks, log) ==
    IF i > Len(paths) THEN [sockets |-> socks, log |-> log]
    ELSE LET path == paths[i]
             ok == path \in okSet
             entry == [path |-> path, ok |-> ok, by |-> by]
         IN  IF ok
             THEN DialAllStop(paths, i + 1, okSet, by,
                              Append(socks, [id |-> Len(closes) + Len(socks) + 1, path |-> path]),
                              Append(log, entry))
             ELSE [sockets |-> socks, log |-> Append(log, entry)]

RECURSIVE DialAll(_, _, _, _, _, _)
DialAll(paths, i, okSet, by, socks, log) ==
    IF i > Len(paths) THEN [sockets |-> socks, log |-> log]
    ELSE LET path == paths[i]
             ok == path \in okSet
             entry == [path |-> path, ok |-> ok, by |-> by]
         IN  IF ok
             THEN DialAll(paths, i + 1, okSet, by,
                          Append(socks, [id |-> Len(closes) + Len(socks) + 1, path |-> path]),
                          Append(log, entry))
             ELSE DialAll(paths, i + 1, okSet, by, socks, Append(log, entry))

\* -------------------------------------------------------- initMachineEvents
\* `sockPaths, err := resolveEventSock()` (line 117) declares a local
\* sockPaths: the package variable keeps the value it had
PreHookSockPathsAssigned(global, resolved) == resolved

PreHookSockPaths(global, resolved) == global

\* `if err != nil { return err }` (lines 118-120)
preHookAbortsNever(err) == FALSE

preHookAborts(err) == err # NoErr

preHook ==
    /\ preCalls' = preCalls + 1
    /\ LET r == resolveEventSock(env)
       IN  IF preHookAborts(r.err)
           THEN /\ ret' = [NoCall EXCEPT !.op = "pre", !.err = r.err, !.resolved = r.paths]
                /\ UNCHANGED <<sockPaths, sockets, dials, closes, received>>
           ELSE \E okSet \in SUBSET Range(r.paths) :
                    LET d == DialAll(r.paths, 1, okSet, "pre", <<>>, <<>>)
                    IN  /\ sockPaths' = PreHookSockPaths(sockPaths, r.paths)
                        /\ sockets' = sockets \o d.sockets
                        /\ dials' = dials \o d.log
                        /\ closes' = closes \o [k \in 1..Len(d.sockets) |-> 0]
                        /\ received' = received \o [k \in 1..Len(d.sockets) |-> <<>>]
                        /\ ret' = [NoCall EXCEPT !.op = "pre", !.resolved = r.paths,
                                                 !.dialed = d.log]
    /\ UNCHANGED <<env, openEventSock, now, pubCalls, postCalls, pc, onceM, bodyRuns>>

initMachineEvents ==
    /\ preCalls < MaxPre
    /\ preHook

\* the pre-hook in a process that invokes it once more
initMachineEventsRerun ==
    /\ preCalls < MaxPre + 1
    /\ preHook

\* ---------------------------------------------------------- newMachineEvent
Statuses == {"running", "stopped"}

\* events.Machine
Machine == "machine"

\* the partial events a caller hands to newMachineEvent
ZeroEvent == [Name |-> "vm", Status |-> "", Time |-> 0, Type |-> ""]
StaleEvent == [Name |-> "vm", Status |-> "removed", Time |-> MaxPublish + 1, Type |-> "container"]
Events == {ZeroEvent, StaleEvent}

\* event.Status = status; event.Time = time.Now(); event.Type = events.Machine
StampKeepsType(status, event, t) ==
    [event EXCEPT !.Status = status, !.Time = t]

Stamp(status, event, t) ==
    [event EXCEPT !.Status = status, !.Time = t, !.Type = Machine]

\* json.Marshal(event): the field-named record, keys in struct order
Marshal(event) ==
    << <<"Name", event.Name>>, <<"Status", event.Status>>,
       <<"Time", event.Time>>, <<"Type", event.Type>> >>

\* the body handed to openEventSock.Do (lines 180-195)
onceBody(paths, okSet) ==
    IF Len(paths) = 0 THEN [sockets |-> <<>>, log |-> <<>>]
    ELSE DialAll(paths, 1, okSet, "publish", <<>>, <<>>)

\* for _, sock := range sockets { if _, err := sock.Write(payload); err != nil
\* { log } } (lines 207-211).  A write fails on a connection of failSet and
\* on a connection that has been closed.
RECURSIVE WriteAllStop(_, _, _, _, _, _)
WriteAllStop(socks, i, failSet, payload, rcv, log) ==
    IF i > Len(socks) THEN [received |-> rcv, log |-> log]
    ELSE LET id == socks[i].id
             ok == id \notin failSet /\ closes[id] = 0
         IN  IF ok
             THEN WriteAllStop(socks, i + 1, failSet, payload,
                               [rcv EXCEPT ![id] = Append(@, payload)],
                               Append(log, [id |-> id, ok |-> TRUE]))
             ELSE [received |-> rcv, log |-> Append(log, [id |-> id, ok |-> FALSE])]

RECURSIVE WriteAllTwice(_, _, _, _, _, _)
WriteAllTwice(socks, i, failSet, payload, rcv, log) ==
    IF i > Len(socks) THEN [received |-> rcv, log |-> log]
    ELSE LET id == socks[i].id
             ok == id \notin failSet /\ closes[id] = 0
         IN  IF ok
             THEN WriteAllTwice(socks, i + 1, failSet, payload,
                                [rcv EXCEPT ![id] = Append(Append(@, payload), payload)],
                                Append(log, [id |-> id, ok |-> TRUE]))
             ELSE WriteAllTwice(socks, i + 1, failSet, payload, rcv,
                                Append(log, [id |-> id, ok |-> FALSE]))

RECURSIVE WriteAll(_, _, _, _, _, _)
WriteAll(socks, i, failSet, payload, rcv, log) ==
    IF i > Len(socks) THEN [received |-> rcv, log |-> log]
    ELSE LET id == socks[i].id
             ok == id \notin failSet /\ closes[id] = 0
         IN  IF ok
             THEN WriteAll(socks, i + 1, failSet, payload,
                           [rcv EXCEPT ![id] = Append(@, payload)],
                           Append(log, [id |-> id, ok |-> TRUE]))
             ELSE WriteAll(socks, i + 1, failSet, payload, rcv,
                           Append(log, [id |-> id, ok |-> FALSE]))

\* `if err != nil { log; return }` after json.Marshal (lines 202-205)
marshalAbortsNever(marshalOk) == FALSE

marshalAborts(marshalOk) == ~marshalOk

\* newMachineEvent has no result: nothing is returned to the caller, whatever
\* the marshal and write outcomes were
publishReturnMarshalErr(marshalOk, writeLog) ==
    IF marshalOk THEN NoErr ELSE "ErrMarshal"

publishReturn(marshalOk, writeLog) == NoErr

\* lines 197-211: stamp, marshal and write to every connection of socks
stampMarshalWrite(status, event, marshalOk, failSet, socks, rcv0, dialLog) ==
    LET payload == Marshal(Stamp(status, event, now'))
        w == IF marshalAborts(marshalOk)
             THEN [received |-> rcv0, log |-> <<>>]
             ELSE WriteAll(socks, 1, failSet, payload, rcv0, <<>>)
    IN  /\ received' = w.received
        /\ ret' = [NoCall EXCEPT !.op = "publish",
                                 !.err = publishReturn(marshalOk, w.log),
                                 !.dialed = dialLog,
                                 !.status = status,
                                 !.event = event,
                                 !.marshalled = marshalOk,
                                 !.payload = payload,
                                 !.writes = w.log]

newMachineEvent ==
    /\ pubCalls < MaxPublish
    /\ pubCalls' = pubCalls + 1
    /\ now' = now + 1
    /\ openEventSock' = TRUE
    /\ \E status \in Statuses, event \in Events, marshalOk \in BOOLEAN,
          okSet \in SUBSET Range(sockPaths) :
          LET d == IF openEventSock THEN [sockets |-> <<>>, log |-> <<>>]
                   ELSE onceBody(sockPaths, okSet)
              socks == sockets \o d.sockets
              rcv0 == received \o [k \in 1..Len(d.sockets) |-> <<>>]
          IN  /\ sockets' = socks
              /\ dials' = dials \o d.log
              /\ closes' = closes \o [k \in 1..Len(d.sockets) |-> 0]
              /\ \E failSet \in SUBSET {socks[k].id : k \in 1..Len(socks)} :
                    stampMarshalWrite(status, event, marshalOk, failSet, socks, rcv0, d.log)
    /\ bodyRuns' = IF openEventSock THEN bodyRuns ELSE bodyRuns + 1
    /\ UNCHANGED <<env, sockPaths, preCalls, postCalls, pc, onceM>>

\* ------------------------------------- newMachineEvent, concurrent callers
\* The steps of one call when several callers are inside newMachineEvent:
\* openEventSock.Do (line 180) is sync.Once.Do, which reads the done flag,
\* and if it is not set takes the mutex, reads the flag again, runs the
\* function, sets the flag and releases the mutex.  pc[t] is one of
\* "idle", "do", "lock", "body", "unlock", "stamp", "returned".

\* caller t enters newMachineEvent
callNewMachineEvent ==
    \E t \in Threads :
        /\ pc[t] = "idle"
        /\ pc' = [pc EXCEPT ![t] = "do"]
        /\ pubCalls' = pubCalls + 1
        /\ UNCHANGED <<env, sockPaths, openEventSock, sockets, dials, closes, received, now,
                       preCalls, postCalls, ret, onceM, bodyRuns>>

\* Do: the first read of the done flag
onceDo ==
    \E t \in Threads :
        /\ pc[t] = "do"
        /\ pc' = [pc EXCEPT ![t] = IF openEventSock THEN "stamp" ELSE "lock"]
        /\ UNCHANGED <<env, sockPaths, openEventSock, sockets, dials, closes, received, now,
                       preCalls, pubCalls, postCalls, ret, onceM, bodyRuns>>

\* the mutex of the Once can be taken when no caller holds it
onceCanLockAlways(m) == TRUE

onceCanLock(m) == m = NoThread

\* doSlow: take the mutex and read the done flag again
onceLock ==
    \E t \in Threads :
        /\ pc[t] = "lock"
        /\ onceCanLock(onceM)
        /\ onceM' = t
        /\ pc' = [pc EXCEPT ![t] = IF openEventSock THEN "unlock" ELSE "body"]
        /\ bodyRuns' = IF openEventSock THEN bodyRuns ELSE bodyRuns + 1
        /\ UNCHANGED <<env, sockPaths, openEventSock, sockets, dials, closes, received, now,
                       preCalls, pubCalls, postCalls, ret>>

\* the function handed to Do (lines 180-195) runs, then the done flag is set
onceRunBody ==
    \E t \in Threads :
        /\ pc[t] = "body"
        /\ \E okSet \in SUBSET Range(sockPaths) :
               LET d == onceBody(sockPaths, okSet)
               IN  /\ sockets' = sockets \o d.sockets
                   /\ dials' = dials \o d.log
                   /\ closes' = closes \o [k \in 1..Len(d.sockets) |-> 0]
                   /\ received' = received \o [k \in 1..Len(d.sockets) |-> <<>>]
        /\ openEventSock' = TRUE
        /\ pc' = [pc EXCEPT ![t] = "unlock"]
        /\ UNCHANGED <<env, sockPaths, now, preCalls, pubCalls, postCalls, ret, onceM, bodyRuns>>

\* doSlow returns: the mutex is released
onceUnlock ==
    \E t \in Threads :
        /\ pc[t] = "unlock"
        /\ onceM' = NoThread
        /\ pc' = [pc EXCEPT ![t] = "stamp"]
        /\ UNCHANGED <<env, sockPaths, openEventSock, sockets, dials, closes, received, now,
                       preCalls, pubCalls, postCalls, ret, bodyRuns>>

\* lines 197-211, then the call returns
stampAndWrite ==
    \E t \in Threads :
        /\ pc[t] = "stamp"
        /\ now' = now + 1
        /\ \E status \in Statuses, event \in Events, marshalOk \in BOOLEAN,
              failSet \in SUBSET {sockets[k].id : k \in 1..Len(sockets)} :
              stampMarshalWrite(status, event, marshalOk, failSet, sockets, received, <<>>)
        /\ pc' = [pc EXCEPT ![t] = "returned"]
        /\ UNCHANGED <<env, sockPaths, openEventSock, sockets, dials, closes,
                       preCalls, pubCalls, postCalls, onceM, bodyRuns>>

\* the pre-hook runs before the command body, when no caller has entered
initMachineEventsFirst ==
    /\ \A t \in Threads : pc[t] = "idle"
    /\ initMachineEvents

\* ------------------------------------------------------- closeMachineEvents
\* for _, sock := range sockets { _ = sock.Close() } (lines 216-218).  The
\* Close of a connection that is already closed fails; the first Close of a
\* connection of failSet reports an error too.  In both cases the connection
\* is closed afterwards.
RECURSIVE CloseAllStop(_, _, _, _)
CloseAllStop(socks, i, failSet, log) ==
    IF i > Len(socks) THEN log
    ELSE LET id == socks[i].id
             ok == id \notin failSet /\ closes[id] = 0
         IN  IF ok THEN CloseAllStop(socks, i + 1, failSet, Append(log, [id |-> id, ok |-> ok]))
             ELSE Append(log, [id |-> id, ok |-> ok])

RECURSIVE CloseAll(_, _, _, _)
CloseAll(socks, i, failSet, log) ==
    IF i > Len(socks) THEN log
    ELSE LET id == socks[i].id
             ok == id \notin failSet /\ closes[id] = 0
         IN  CloseAll(socks, i + 1, failSet, Append(log, [id |-> id, ok |-> ok]))

\* number of Close calls the log holds for connection id
ClosesIn(log, id) == Cardinality({k \in 1..Len(log) : log[k].id = id})

\* `return nil` (line 219), whatever the Close calls returned
postHookReturnFirstErr(log) ==
    IF \E k \in 1..Len(log) : ~log[k].ok THEN "ErrClose" ELSE NoErr

postHookReturn(log) == NoErr

\* closeMachineEvents does not assign sockets
postHookSocketsCleared(socks) == <<>>

postHookSockets(socks) == socks

closeMachineEvents ==
    /\ postCalls < MaxPost
    /\ postCalls' = postCalls + 1
    /\ \E failSet \in SUBSET {sockets[k].id : k \in 1..Len(sockets)} :
          LET log == CloseAll(sockets, 1, failSet, <<>>)
          IN  /\ closes' = [id \in 1..Len(closes) |-> closes[id] + ClosesIn(log, id)]
              /\ ret' = [NoCall EXCEPT !.op = "post", !.err = postHookReturn(log),
                                       !.closed = log]
    /\ sockets' = postHookSockets(sockets)
    /\ UNCHANGED <<env, sockPaths, openEventSock, dials, received, now, preCalls, pubCalls,
                   pc, onceM, bodyRuns>>

\* ------------------------------------------------------------ specification
Next ==
    \/ initMachineEvents
    \/ newMachineEvent
    \/ closeMachineEvents

Spec == Init /\ [][Next]_vars

\* the pre-hook, which calls resolveEventSock, on every environment of
\* EnvsResolve
InitResolve ==
    /\ env \in EnvsResolve
    /\ sockPaths = <<>>
    /\ openEventSock = FALSE
    /\ sockets = <<>>
    /\ dials = <<>>
    /\ closes = <<>>
    /\ received = <<>>
    /\ now = 0
    /\ preCalls = 0
    /\ pubCalls = 0
    /\ postCalls = 0
    /\ ret = NoCall
    /\ pc = [t \in Threads |-> "idle"]
    /\ onceM = NoThread
    /\ bodyRuns = 0

NextResolve == initMachineEvents

SpecResolve == InitResolve /\ [][NextResolve]_vars

\* at most one directory entry, or the override
InitOneEntry == Init /\ Len(env.walk) <= 1

\* a process whose command body calls newMachineEvent from several callers
NextRace ==
    \/ initMachineEventsFirst
    \/ callNewMachineEvent
    \/ onceDo
    \/ onceLock
    \/ onceRunBody
    \/ onceUnlock
    \/ stampAndWrite

SpecRace == InitOneEntry /\ [][NextRace]_vars

\* a process that invokes the pre-hook a second time

NextRerun ==
    \/ initMachineEventsRerun
    \/ newMachineEvent
    \/ closeMachineEvents

SpecRerun == InitOneEntry /\ [][NextRerun]_vars

TypeOK ==
    /\ env \in Envs \cup EnvsResolve
    /\ openEventSock \in BOOLEAN
    /\ Len(closes) = Len(received)
    /\ \A k \in 1..Len(sockets) : sockets[k].id \in 1..Len(closes)
    /\ preCalls \in 0..(MaxPre + 1) /\ pubCalls \in 0..MaxPublish /\ postCalls \in 0..MaxPost
    /\ now <= pubCalls

\* ------------------------------------------------------------------ helpers
Ids(log) == [k \in 1..Len(log) |-> log[k].id]

PathsOf(log) == [k \in 1..Len(log) |-> log[k].path]

OkDial(d) == d.ok

Resolved == resolveEventSock(env)

\* ----------------------------------------------------------------------- C1
\* C1: in a run with one pre-hook and any number of publish calls, no
\* endpoint is dialed a second time, whether its first dial succeeded or not.
C1_DialedAtMostOnce ==
    preCalls <= 1 =>
        \A k1 \in 1..Len(dials) : \A k2 \in 1..Len(dials) :
            dials[k1].path = dials[k2].path => k1 = k2

\* the pre-hook and two publish calls have run, and every dial failed
C1_Witness ==
    /\ preCalls = 1
    /\ pubCalls >= 2
    /\ dials # <<>>
    /\ \A k \in 1..Len(dials) : ~dials[k].ok

\* ----------------------------------------------------------------------- C2
\* C2 as stated: every resolved endpoint is dialed whatever the outcome of
\* the dials before it, the live set holds exactly the connections whose
\* dial succeeded, and each publish call attempts exactly one write on each
\* live connection.
C2_Original ==
    /\ (ret.op = "pre" /\ ret.err = NoErr) => PathsOf(ret.dialed) = ret.resolved
    /\ PathsOf(sockets) = PathsOf(SelectSeq(dials, OkDial))
    /\ ret.op = "publish" => Ids(ret.writes) = Ids(sockets)

\* C2 as amended: the same, for each publish call whose event serializes.
C2_DialAllWriteAll ==
    /\ (ret.op = "pre" /\ ret.err = NoErr) => PathsOf(ret.dialed) = ret.resolved
    /\ PathsOf(sockets) = PathsOf(SelectSeq(dials, OkDial))
    /\ (ret.op = "publish" /\ ret.marshalled) => Ids(ret.writes) = Ids(sockets)

\* a dial failed, a later one succeeded, and a publish wrote to the live set
C2_Witness ==
    /\ ret.op = "publish"
    /\ ret.marshalled
    /\ ret.writes # <<>>
    /\ \E k1 \in 1..Len(dials) : \E k2 \in 1..Len(dials) :
           k1 < k2 /\ ~dials[k1].ok /\ dials[k2].ok

\* ----------------------------------------------------------------------- C3
\* C3: in a publish call where a write fails, every connection of the live
\* set still gets its write attempt, and publish returns nothing to its
\* caller.
C3_WriteFailureContained ==
    ret.op = "publish" =>
        /\ ret.err = NoErr
        /\ (\E k \in 1..Len(ret.writes) : ~ret.writes[k].ok)
               => Ids(ret.writes) = Ids(sockets)

\* the write on the first connection failed and the one on the second did not
C3_Witness ==
    /\ ret.op = "publish"
    /\ Len(ret.writes) >= 2
    /\ ~ret.writes[1].ok
    /\ ret.writes[2].ok

C5_Original ==
    (ret.op = "pre" /\ ret.err = NoErr) => sockPaths = ret.resolved

\* ----------------------------------------------------------------------- C6
\* C6 as stated: the pre-hook does not dial; as long as publish has not been
\* called, no dial has been attempted and the live set is empty.
C6_Original ==
    pubCalls = 0 => (dials = <<>> /\ sockets = <<>>)

\* ----------------------------------------------------------------------- C7
\* C7: when resolution yields zero endpoints, nothing is ever dialed, the
\* live set stays empty, and every publish call writes nothing and returns
\* no error.
C7_NoEndpointsNoDial ==
    Resolved.paths = <<>> =>
        /\ dials = <<>>
        /\ sockets = <<>>
        /\ ret.op = "publish" => (ret.writes = <<>> /\ ret.err = NoErr)

\* the pre-hook resolved nothing, without error, and a publish call followed
C7_Witness ==
    /\ Resolved.paths = <<>>
    /\ Resolved.err = NoErr
    /\ preCalls >= 1
    /\ ret.op = "publish"

\* ----------------------------------------------------------------------- C8
\* C8: a pre-hook call whose resolution fails returns that error, dials
\* nothing and leaves sockets and sockPaths as they were; no handler ever
\* returns an error that is not the resolution error of the pre-hook.
C8_OnlyResolutionErrorReturned ==
    /\ [](ret.err # NoErr => (ret.op = "pre" /\ ret.err = Resolved.err))
    /\ [][(preCalls' = preCalls + 1 /\ Resolved.err # NoErr) =>
              /\ ret'.err = Resolved.err
              /\ dials' = dials
              /\ sockets' = sockets
              /\ sockPaths' = sockPaths]_vars

\* the pre-hook has just returned the resolution error
C8_Witness ==
    /\ ret.op = "pre"
    /\ ret.err = ErrPermission

\* ----------------------------------------------------------------------- C9
\* C9 as stated: no connection ever gets a second Close, and the post-hook
\* returns no error.
C9_Original ==
    /\ \A id \in 1..Len(closes) : closes[id] <= 1
    /\ ret.op = "post" => ret.err = NoErr

\* C9 as amended: every post-hook call issues one Close on each connection
\* of the live set and returns no error; a call made when a connection is
\* already closed issues a further Close on it, which fails.
C9_CloseOncePerPostHook ==
    [][postCalls' = postCalls + 1 =>
          /\ ret'.err = NoErr
          /\ Ids(ret'.closed) = Ids(sockets)
          /\ \A k \in 1..Len(sockets) :
                 /\ closes'[sockets[k].id] = closes[sockets[k].id] + 1
                 /\ closes[sockets[k].id] >= 1 => ~ret'.closed[k].ok]_vars

\* the post-hook ran twice on a live connection
C9_Witness ==
    /\ postCalls = 2
    /\ ret.op = "post"
    /\ \E k \in 1..Len(sockets) : closes[sockets[k].id] = 2

\* ---------------------------------------------------------------------- C10
\* C10: the post-hook issues a Close on every connection of the live set,
\* also after a Close that failed, and returns no error.
C10_CloseFailureContained ==
    ret.op = "post" =>
        /\ Ids(ret.closed) = Ids(sockets)
        /\ ret.err = NoErr

\* the Close of the first connection failed and the second was still closed
C10_Witness ==
    /\ ret.op = "post"
    /\ Len(ret.closed) >= 2
    /\ ~ret.closed[1].ok
    /\ ret.closed[2].ok

\* ---------------------------------------------------------------------- C11
\* C11 as stated: after any sequence of pre-hook, publish and post-hook
\* calls, the live set holds at most as many connections as there are
\* resolved endpoints, and at most one connection per endpoint.
C11_Original ==
    /\ Len(sockets) <= Len(Resolved.paths)
    /\ \A k1 \in 1..Len(sockets) : \A k2 \in 1..Len(sockets) :
           sockets[k1].path = sockets[k2].path => k1 = k2

\* ---------------------------------------------------------------------- C12
\* the value a serialized record holds for a field
PayloadField(payload, key) ==
    LET k == CHOOSE i \in 1..Len(payload) : payload[i][1] = key
    IN  payload[k][2]

\* C12: on every connection the records arrive in the order of the publish
\* calls that wrote them (the time stamps strictly increase), and one publish
\* call writes at most once to a connection.
C12_PerConnectionOrder ==
    /\ \A id \in 1..Len(received) :
           \A i \in 1..Len(received[id]) : \A j \in 1..Len(received[id]) :
               i < j => PayloadField(received[id][i], "Time")
                            < PayloadField(received[id][j], "Time")
    /\ ret.op = "publish" =>
           \A k1 \in 1..Len(ret.writes) : \A k2 \in 1..Len(ret.writes) :
               ret.writes[k1].id = ret.writes[k2].id => k1 = k2

\* a connection has received the records of two publish calls
C12_Witness ==
    \E id \in 1..Len(received) : Len(received[id]) >= 2

\* ---------------------------------------------------------------------- C13
\* C13: every record written carries Type = machine and Status = the status
\* argument of its publish call, whatever the caller's event held; with one
\* live connection, one publish call delivers exactly one such record.
C13_StampedRecord ==
    /\ \A id \in 1..Len(received) : \A i \in 1..Len(received[id]) :
           /\ PayloadField(received[id][i], "Type") = Machine
           /\ PayloadField(received[id][i], "Status") \in Statuses
    /\ ret.op = "publish" =>
           /\ PayloadField(ret.payload, "Type") = Machine
           /\ PayloadField(ret.payload, "Status") = ret.status
           /\ \A k \in 1..Len(ret.writes) :
                  ret.writes[k].ok =>
                      /\ received[ret.writes[k].id] # <<>>
                      /\ received[ret.writes[k].id][Len(received[ret.writes[k].id])] = ret.payload
    /\ (ret.op = "publish" /\ pubCalls = 1 /\ Len(sockets) = 1
            /\ Len(ret.writes) = 1 /\ ret.writes[1].ok) =>
           received[sockets[1].id] = <<ret.payload>>

\* the one publish call so far was handed an event with another Type, Status
\* and Time, and its record reached the one live connection
C13_Witness ==
    /\ ret.op = "publish"
    /\ pubCalls = 1
    /\ ret.event = StaleEvent
    /\ Len(sockets) = 1
    /\ Len(ret.writes) = 1
    /\ ret.writes[1].ok

\* ---------------------------------------------------------------------- C14
\* C14: when PODMAN_MACHINE_EVENTS_SOCK is set, resolution returns exactly
\* the one path it names and no error, whatever the directory holds and
\* whether or not the runtime dir is known.
C14_OverrideVerbatim ==
    (ret.op = "pre" /\ env.override) =>
        (ret.resolved = <<EnvSock>> /\ ret.err = NoErr)

\* the override is set, the runtime dir is unknown and the walk would fail
C14_Witness ==
    /\ ret.op = "pre"
    /\ env.override
    /\ ~env.xdgOk
    /\ \E i \in 1..Len(env.walk) : env.walk[i].err = ErrPermission

\* ---------------------------------------------------------------------- C15
\* the first error the walk meets, NoErr when it meets none
FirstErr(walk) ==
    IF \E i \in 1..Len(walk) : walk[i].err # NoErr
    THEN LET first == CHOOSE i \in 1..Len(walk) :
                          /\ walk[i].err # NoErr
                          /\ \A j \in 1..(i - 1) : walk[j].err = NoErr
         IN  walk[first].err
    ELSE NoErr

\* the target subdirectory does not exist: the first callback of the walk
\* gets os.ErrNotExist
SubdirMissing(walk) == Len(walk) >= 1 /\ walk[1].err = ErrNotExist

\* C15 as stated: without override, resolution returns no endpoint and no
\* error when the runtime dir is unknown or the target subdirectory does not
\* exist, and returns the error, and no endpoint, for any other error the
\* walk meets.
C15_Original ==
    (ret.op = "pre" /\ ~env.override) =>
        /\ (~env.xdgOk \/ SubdirMissing(env.walk)) =>
               (ret.resolved = <<>> /\ ret.err = NoErr)
        /\ (env.xdgOk /\ ~SubdirMissing(env.walk) /\ FirstErr(env.walk) # NoErr) =>
               (ret.resolved = <<>> /\ ret.err = FirstErr(env.walk))

\* C15 as amended: no endpoint and no error when the runtime dir is unknown
\* or the first error the walk meets is os.ErrNotExist, at the target
\* subdirectory or at any later entry; the error, and no endpoint, when the
\* first error the walk meets is any other one.
C15_NotExistIsEmpty ==
    (ret.op = "pre" /\ ~env.override) =>
        /\ (~env.xdgOk \/ FirstErr(env.walk) = ErrNotExist) =>
               (ret.resolved = <<>> /\ ret.err = NoErr)
        /\ (env.xdgOk /\ FirstErr(env.walk) \notin {NoErr, ErrNotExist}) =>
               (ret.resolved = <<>> /\ ret.err = FirstErr(env.walk))

\* the walk found a socket and then met os.ErrNotExist
C15_Witness ==
    /\ ret.op = "pre"
    /\ ~env.override
    /\ env.xdgOk
    /\ Len(env.walk) >= 2
    /\ fn(env.walk[1]) = "keep"
    /\ env.walk[2].err = ErrNotExist

\* ---------------------------------------------------------------------- C16
\* the name starts with machine_events and ends with .sock
StartsAndEnds(name) ==
    /\ Len(name) >= 2
    /\ name[1] = TokPrefix
    /\ name[Len(name)] = TokSuffix

Wanted(info) == ~info.isDir /\ info.isSocket /\ StartsAndEnds(info.name)

RECURSIVE WantedPaths(_, _)
WantedPaths(walk, i) ==
    IF i > Len(walk) THEN <<>>
    ELSE IF Wanted(walk[i]) THEN <<i>> \o WantedPaths(walk, i + 1)
    ELSE WantedPaths(walk, i + 1)

\* C16 as stated: without override, when the walk meets no error, the
\* endpoints returned are, in walk order, exactly the entries that are not
\* directories, are sockets, and have a name that starts with machine_events
\* and ends with .sock.
C16_Original ==
    (ret.op = "pre" /\ ~env.override /\ env.xdgOk /\ FirstErr(env.walk) = NoErr) =>
        ret.resolved = WantedPaths(env.walk, 1)

\* ---------------------------------------------------------------------- C17
\* C17: when several callers race into openEventSock.Do, the function handed
\* to it is started at most once, and a caller is past Do (stamping, writing
\* or returned) only when that one run has finished.
C17_OnceBarrier ==
    /\ bodyRuns <= 1
    /\ \A t \in Threads :
           pc[t] \in {"stamp", "returned"} =>
               /\ openEventSock
               /\ bodyRuns = 1
               /\ \A u \in Threads : pc[u] # "body"

\* one caller runs the function while another, which also read the flag as
\* not set, waits for the mutex
C17_Witness ==
    \E t \in Threads : \E u \in Threads :
        /\ t # u
        /\ pc[t] = "body"
        /\ pc[u] = "lock"

\* ---------------------------------------------------------------------- C18
\* C18: once openEventSock.Do has run, a publish call and a post-hook call
\* leave the live set exactly as it was, whatever the write and close
\* outcomes.
C18_LiveSetReadOnly ==
    [][(openEventSock /\ (pubCalls' = pubCalls + 1 \/ postCalls' = postCalls + 1))
           => sockets' = sockets]_vars

\* after a post-hook call, a second publish call met a failing write
C18_Witness ==
    /\ openEventSock
    /\ postCalls >= 1
    /\ pubCalls >= 2
    /\ ret.op = "publish"
    /\ sockets # <<>>
    /\ \E k \in 1..Len(ret.writes) : ~ret.writes[k].ok

\* ---------------------------------------------------------------------- C19
\* C19: a publish call whose serialization fails attempts no write, delivers
\* nothing to any connection and leaves the live set as it was.
C19_MarshalFailureWritesNothing ==
    [][(pubCalls' = pubCalls + 1 /\ ~ret'.marshalled) =>
           /\ ret'.writes = <<>>
           /\ received' = received
           /\ sockets' = sockets]_vars

\* serialization failed while an open connection was in the live set
C19_Witness ==
    /\ ret.op = "publish"
    /\ ~ret.marshalled
    /\ \E k \in 1..Len(sockets) : closes[sockets[k].id] = 0

\* ---------------------------------------------------------------------- C20
\* C20 as stated: the post-hook leaves every connection in the live set, and
\* a publish call made after a post-hook call dials nothing and attempts
\* exactly one write, which fails, on every connection that has been closed.
C20_Original ==
    /\ Ids(sockets) = [id \in 1..Len(closes) |-> id]
    /\ (ret.op = "publish" /\ postCalls >= 1) =>
           /\ ret.dialed = <<>>
           /\ \A id \in 1..Len(closes) :
                  closes[id] >= 1 =>
                      /\ Cardinality({k \in 1..Len(ret.writes) : ret.writes[k].id = id}) = 1
                      /\ \A k \in 1..Len(ret.writes) :
                             ret.writes[k].id = id => ~ret.writes[k].ok

\* C20 as amended: the same, for a publish call whose event serializes.
C20_WritesAfterClose ==
    /\ Ids(sockets) = [id \in 1..Len(closes) |-> id]
    /\ (ret.op = "publish" /\ postCalls >= 1) => ret.dialed = <<>>
    /\ (ret.op = "publish" /\ postCalls >= 1 /\ ret.marshalled) =>
           \A id \in 1..Len(closes) :
               closes[id] >= 1 =>
                   /\ Cardinality({k \in 1..Len(ret.writes) : ret.writes[k].id = id}) = 1
                   /\ \A k \in 1..Len(ret.writes) :
                          ret.writes[k].id = id => ~ret.writes[k].ok

\* a publish call after the post-hook attempted a write on a closed connection
C20_Witness ==
    /\ ret.op = "publish"
    /\ postCalls >= 1
    /\ ret.marshalled
    /\ \E k \in 1..Len(ret.writes) : closes[ret.writes[k].id] >= 1 /\ ~ret.writes[k].ok

====
